---- MODULE Spec2Model ----
(***************************************************************************)
(* Model of scripts/build.py: MonospaceGenerator.build() and the three    *)
(* methods it calls.  HTML is kept as character strings; the regular      *)
(* expressions of generate_monospace_web are translated character by      *)
(* character (Len, SubSeq and \o apply to strings).                        *)
(***************************************************************************)
EXTENDS Integers, Sequences, FiniteSets, TLC

VARIABLES
    pc,              \* position inside build()
    input_exists,    \* os.path.exists(self.input_file)
    static_exists,   \* os.path.exists(self.static_dir)
    static_files,    \* relative paths of the files below static_dir
    out_exists,      \* os.path.exists(self.output_dir)
    out_src_exists,  \* os.path.exists(output_dir/src)
    out_files,       \* files below output_dir: [path, fresh]
    post,            \* frontmatter.load(f): [metadata, content]
    md_toc,          \* self.md.toc after convert()
    raw_html,        \* html_content as returned by self.md.convert
    html_content,    \* html_content, rewritten in place by the rules
    toc,             \* the toc string handed to the template
    page,            \* keyword arguments of template.render
    log,             \* lines printed by the current build
    before           \* paths below output_dir when build() was entered

vars == <<pc, input_exists, static_exists, static_files, out_exists,
          out_src_exists, out_files, post, md_toc, raw_html, html_content,
          toc, page, log, before>>

fsvars == <<input_exists, static_exists, static_files, out_exists,
            out_src_exists, out_files>>

docvars == <<post, md_toc, raw_html, html_content, toc, page>>

(***************************************************************************)
(* Bounds                                                                  *)
(***************************************************************************)
MaxBlocks == 2      \* blocks of a mixed document
MaxHeadings == 3    \* headings of a headings-only document
MaxInline == 3      \* inline items of a paragraph

(***************************************************************************)
(* Character-level helpers                                                 *)
(***************************************************************************)
At(s, i) == SubSeq(s, i, i)

StartsAt(s, i, lit) ==
    /\ i >= 1
    /\ i + Len(lit) - 1 <= Len(s)
    /\ SubSeq(s, i, i + Len(lit) - 1) = lit

Max(S) == CHOOSE x \in S : \A y \in S : y <= x

\* least element of a set of indices, 0 when the set is empty
First(S) == IF S = {} THEN 0 ELSE CHOOSE x \in S : \A y \in S : x <= y

\* the indices >= i at which lit occurs in s
Occurrences(s, lit, i) == {k \in i..Len(s) : StartsAt(s, k, lit)}

\* first index >= i at which lit occurs in s, 0 when there is none
Find(s, lit, i) == First(Occurrences(s, lit, i))

Contains(s, lit) == Find(s, lit, 1) # 0

\* number of occurrences of lit in s
Count(s, lit) == Cardinality(Occurrences(s, lit, 1))

(***************************************************************************)
(* Rule 1, list classing (build.py 88-91)                                  *)
(***************************************************************************)
\* the lookahead [^>]*lit at index j: lit starts at some k >= j and no '>'
\* lies between j and k
Ahead(s, j, lit) ==
    LET k == Find(s, lit, j)
        g == Find(s, ">", j)
    IN  k # 0 /\ (g = 0 \/ k < g)

\* r'<ul(?![^>]*class=)' matches at index i
UlPattern(s, i) == StartsAt(s, i, "<ul") /\ ~Ahead(s, i + 3, "class=")

\* r'<ol(?![^>]*class=)(?![^>]*type=)' matches at index i
OlPattern(s, i) ==
    /\ StartsAt(s, i, "<ol")
    /\ ~Ahead(s, i + 3, "class=")
    /\ ~Ahead(s, i + 3, "type=")

\* re.sub from index i on: text up to the leftmost match is copied, the
\* match is replaced and the scan resumes behind it
RECURSIVE SubUl(_, _)
SubUl(s, i) ==
    LET j == First({k \in i..Len(s) : UlPattern(s, k)})
    IN  IF j = 0 THEN SubSeq(s, i, Len(s))
        ELSE SubSeq(s, i, j - 1) \o "<ul class=\"incremental\""
             \o SubUl(s, j + 3)

RECURSIVE SubOl(_, _)
SubOl(s, i) ==
    LET j == First({k \in i..Len(s) : OlPattern(s, k)})
    IN  IF j = 0 THEN SubSeq(s, i, Len(s))
        ELSE SubSeq(s, i, j - 1) \o "<ol class=\"incremental\" type=\"1\""
             \o SubOl(s, j + 3)

ListClassing(s) == SubOl(SubUl(s, 1), 1)

(***************************************************************************)
(* Rule 2, figure synthesis (build.py 93-102)                              *)
(***************************************************************************)
NoMatch == [k |-> 0, q |-> 0, g |-> 0]

\* r'<p><img([^>]+)alt="([^"]*)"([^>]*)CLOSE</p>' tried at index i, CLOSE
\* being "/>" or ">".  k is the index of alt=", q of the quote closing the
\* alt value, g of the '>' that ends the match before </p>.  Group 1 is
\* greedy, so the rightmost alt=" that lets the rest match is taken.
ImgPattern(s, i, close) ==
    IF ~StartsAt(s, i, "<p><img") THEN NoMatch
    ELSE
      LET g0 == Find(s, ">", i + 7)
          Q(k) == Find(s, "\"", k + 5)
          G(k) == IF Q(k) = 0 THEN 0 ELSE Find(s, ">", Q(k) + 1)
          Ok(k) ==
              /\ StartsAt(s, k, "alt=\"")
              /\ (g0 = 0 \/ k < g0)
              /\ Q(k) # 0
              /\ G(k) # 0
              /\ (close = "/>" => G(k) - 1 > Q(k) /\ At(s, G(k) - 1) = "/")
              /\ StartsAt(s, G(k) + 1, "</p>")
          K == {k \in (i + 8)..Len(s) : Ok(k)}
      IN  IF K = {} THEN NoMatch
          ELSE [k |-> Max(K), q |-> Q(Max(K)), g |-> G(Max(K))]

\* the replacement r'<figure><img\1alt="\2"\3CLOSE<figcaption ...>\2</figcaption></figure>'
Figure(s, i, m) ==
    "<figure>" \o SubSeq(s, i + 3, m.g)
    \o "<figcaption aria-hidden=\"true\">" \o SubSeq(s, m.k + 5, m.q - 1)
    \o "</figcaption></figure>"

RECURSIVE SubImg(_, _, _)
SubImg(s, i, close) ==
    LET j == First({k \in i..Len(s) : ImgPattern(s, k, close).k # 0})
        m == ImgPattern(s, j, close)
    IN  IF j = 0 THEN SubSeq(s, i, Len(s))
        ELSE SubSeq(s, i, j - 1) \o Figure(s, j, m)
             \o SubImg(s, m.g + 5, close)

FigureSynthesis(s) == SubImg(SubImg(s, 1, "/>"), 1, ">")

(***************************************************************************)
(* Rule 3, syntax-highlight class removal (build.py 104-105)               *)
(***************************************************************************)
CodehilitePattern == " class=\"codehilite\""

RECURSIVE SubCodehilite(_, _)
SubCodehilite(s, i) ==
    LET j == Find(s, CodehilitePattern, i)
    IN  IF j = 0 THEN SubSeq(s, i, Len(s))
        ELSE SubSeq(s, i, j - 1)
             \o SubCodehilite(s, j + Len(CodehilitePattern))

StripCodehilite(s) == SubCodehilite(s, 1)

Normalize(s) == StripCodehilite(FigureSynthesis(ListClassing(s)))

(***************************************************************************)
(* Rule 4, table of contents (build.py 107-122)                            *)
(***************************************************************************)
NoToc == "<no toc attribute>"    \* hasattr(self.md, 'toc') is false
EmptyToc == "<ul class=\"incremental\"></ul>"

\* re.sub(r'<a href="#([^"]+)"', ... id="toc-\1"), scanning from index i
\* r'<a href="#([^"]+)"' tried at index i: index of the closing quote, 0
\* when there is no match
LinkPattern(s, i) ==
    LET q == IF StartsAt(s, i, "<a href=\"#")
             THEN Find(s, "\"", i + 10) ELSE 0
    IN  IF q > i + 10 THEN q ELSE 0

\* the toc- prefix put on the href as well
TocLinkPrefixedHref(s, j, q) ==
    "<a href=\"#toc-" \o SubSeq(s, j + 10, q - 1) \o "\" id=\"toc-"
    \o SubSeq(s, j + 10, q - 1) \o "\""

\* f'<a href="#{m.group(1)}" id="toc-{m.group(1)}"' for the match j..q
TocLink(s, j, q) ==
    "<a href=\"#" \o SubSeq(s, j + 10, q - 1) \o "\" id=\"toc-"
    \o SubSeq(s, j + 10, q - 1) \o "\""

RECURSIVE SubTocIds(_, _)
SubTocIds(s, i) ==
    LET j == First({k \in i..Len(s) : LinkPattern(s, k) # 0})
        q == LinkPattern(s, j)
    IN  IF j = 0 THEN SubSeq(s, i, Len(s))
        ELSE SubSeq(s, i, j - 1) \o TocLink(s, j, q) \o SubTocIds(s, q + 1)

\* re.search(r'<ul>(.*?)</ul>', toc_html, re.DOTALL): [found, group 1]
UlMatch(toc_html) ==
    LET a == Find(toc_html, "<ul>", 1)
        b == IF a = 0 THEN 0 ELSE Find(toc_html, "</ul>", a + 4)
    IN  IF b = 0 THEN [found |-> FALSE, items |-> ""]
        ELSE [found |-> TRUE, items |-> SubSeq(toc_html, a + 4, b - 1)]

\* the toc left out when the converter gives none
FormatTocOmitted(toc_html) ==
    IF toc_html # NoToc /\ toc_html # ""
    THEN LET ul_match == UlMatch(toc_html)
         IN  IF ul_match.found
             THEN "<ul class=\"incremental\">"
                  \o SubTocIds(ul_match.items, 1) \o "</ul>"
             ELSE ""
    ELSE ""

FormatToc(toc_html) ==
    IF toc_html # NoToc /\ toc_html # ""
    THEN LET ul_match == UlMatch(toc_html)
         IN  IF ul_match.found
             THEN "<ul class=\"incremental\">"
                  \o SubTocIds(ul_match.items, 1) \o "</ul>"
             ELSE EmptyToc
    ELSE EmptyToc

(***************************************************************************)
(* Input documents: front-matter metadata and a body of Markdown blocks.   *)
(* A block is kept as the HTML Python-Markdown emits for it.               *)
(***************************************************************************)
SeqsUpTo(S, n) == UNION {[1..k -> S] : k \in 0..n}

\* inline items of a paragraph
Inline(html, img, has_alt, alt) ==
    [html |-> html, img |-> img, has_alt |-> has_alt, alt |-> alt]

ImgMd      == Inline("<img alt=\"X\" src=\"s\" />", TRUE, TRUE, "X")
ImgEmpty   == Inline("<img alt=\"\" src=\"s\" />", TRUE, TRUE, "")
ImgTitled  == Inline("<img alt=\"Y\" src=\"s\" title=\"alt=\" />", TRUE, TRUE, "Y")
ImgRaw     == Inline("<img src=\"s\" alt=\"Z\">", TRUE, TRUE, "Z")
ImgNoAlt   == Inline("<img src=\"s\" />", TRUE, FALSE, "")
Text       == Inline("t", FALSE, FALSE, "")
TextQuoted == Inline("\"q\"", FALSE, FALSE, "")

InlineItems ==
    {ImgMd, ImgEmpty, ImgTitled, ImgRaw, ImgNoAlt, Text, TextQuoted}

Block(kind, html, level, inline) ==
    [kind |-> kind, html |-> html, level |-> level, inline |-> inline]

RECURSIVE InlineHtml(_)
InlineHtml(items) ==
    IF items = <<>> THEN "" ELSE Head(items).html \o InlineHtml(Tail(items))

Para(items) == Block("para", "<p>" \o InlineHtml(items) \o "</p>", 0, items)

Heading(level) == Block("heading", "", level, <<>>)

ListHtml ==
    { "<ul>\n<li>a</li>\n</ul>",
      "<ol>\n<li>a</li>\n</ol>",
      "<ul>\n<li>a<ol>\n<li>b</li>\n</ol>\n</li>\n</ul>",
      "<ul class=\"tree\"><li>a</li></ul>",
      "<ul class=\"codehilite\"><li>a</li></ul>",
      "<ol type=\"a\"><li>a</li></ol>",
      "<ol start=\"2\"><li>a</li></ol>",
      "<ol class=\"x\"><li>a</li></ol>",
      "<ol class=\"x\" type=\"a\"><li>a</li></ol>" }

CodeBlock ==
    Block("code", "<div class=\"codehilite\"><pre><code>x</code></pre></div>",
          0, <<>>)

List(html) == Block("list", html, 0, <<>>)

BasicBlocks ==
    {Heading(l) : l \in 1..2}
    \cup {List("<ul>\n<li>a</li>\n</ul>"),
          List("<ul class=\"codehilite\"><li>a</li></ul>"),
          List("<ol type=\"a\"><li>a</li></ol>")}
    \cup {CodeBlock}
    \cup {Para(<<ImgMd>>), Para(<<ImgNoAlt>>), Para(<<ImgMd, Text>>)}

\* documents mixing headings, lists, code and paragraphs
MixedDocs == SeqsUpTo(BasicBlocks, MaxBlocks)

\* documents of one list
ListDocs == {<<List(h)>> : h \in ListHtml}

\* documents of headings only
OutlineDocs == SeqsUpTo({Heading(l) : l \in 1..3}, MaxHeadings)

\* documents of one paragraph
ParagraphDocs ==
    {<<Para(items)>> : items \in SeqsUpTo(InlineItems, MaxInline) \ {<<>>}}

\* text and inline code that spell the highlighting marker
TextNested ==
    Inline("t class=\"code class=\"codehilite\"hilite\"", FALSE, FALSE, "")
InlineCode ==
    Inline("<code>a class=\"codehilite\"</code>", FALSE, FALSE, "")

Raw(html) == Block("raw", html, 0, <<>>)

\* documents of one block carrying the highlighting marker outside a list
MarkerDocs ==
    {<<Para(<<TextNested>>)>>,
     <<Raw("<p class=\"codehilite\"><img alt=\"X\" src=\"s\" /></p>")>>}

\* documents of one block with markup inside <pre> or <code>
CodeDocs ==
    {<<Raw("<pre><ul><li>a</li></ul></pre>")>>,
     <<Raw("<pre><p><img alt=\"X\" src=\"s\" /></p></pre>")>>,
     <<Para(<<InlineCode>>)>>}

Documents ==
    MixedDocs \cup ListDocs \cup OutlineDocs \cup ParagraphDocs
    \cup MarkerDocs \cup CodeDocs

MetaKeys ==
    {"title", "subtitle", "author", "author-url", "toc-title", "author_url"}

MetaValue(k) == "doc " \o k

Metadatas == {[k \in K |-> MetaValue(k)] : K \in SUBSET MetaKeys}

NoMetadata == [k \in {} |-> ""]

NoPost == [metadata |-> NoMetadata, content |-> <<>>]

(***************************************************************************)
(* The Markdown converter with the toc extension (build.py 37-47, 83):     *)
(* the fragment and the table of contents it leaves in self.md.toc.        *)
(***************************************************************************)
Anchor(n) == "s" \o ToString(n)

HeadingHtml(level, n) ==
    "<h" \o ToString(level) \o " id=\"" \o Anchor(n) \o "\">S" \o ToString(n)
    \o "</h" \o ToString(level) \o ">"

\* number of headings among the first n blocks
HeadingsUpTo(doc, n) ==
    Cardinality({j \in 1..n : doc[j].kind = "heading"})

BlockHtml(doc, n) ==
    IF doc[n].kind = "heading"
    THEN HeadingHtml(doc[n].level, HeadingsUpTo(doc, n))
    ELSE doc[n].html

RECURSIVE JoinLines(_)
JoinLines(ss) ==
    IF ss = <<>> THEN ""
    ELSE IF Len(ss) = 1 THEN Head(ss)
    ELSE Head(ss) \o "\n" \o JoinLines(Tail(ss))

Convert(doc) == JoinLines([n \in 1..Len(doc) |-> BlockHtml(doc, n)])

\* the heading outline: [level, id, text] in document order
RECURSIVE OutlineFrom(_, _)
OutlineFrom(doc, n) ==
    IF n > Len(doc) THEN <<>>
    ELSE IF doc[n].kind = "heading"
         THEN <<[level |-> doc[n].level, id |-> Anchor(HeadingsUpTo(doc, n)),
                 text |-> "S" \o ToString(HeadingsUpTo(doc, n))]>>
              \o OutlineFrom(doc, n + 1)
         ELSE OutlineFrom(doc, n + 1)

Outline(doc) == OutlineFrom(doc, 1)

\* length of the run of entries after the first that are nested below it
RECURSIVE Deeper(_, _)
Deeper(hs, level) ==
    IF hs = <<>> \/ Head(hs).level <= level THEN 0
    ELSE 1 + Deeper(Tail(hs), level)

RECURSIVE TocItems(_)
TocItems(hs) ==
    IF hs = <<>> THEN ""
    ELSE LET h == Head(hs)
             n == Deeper(Tail(hs), h.level)
             children == SubSeq(Tail(hs), 1, n)
             rest == SubSeq(Tail(hs), n + 1, Len(hs) - 1)
         IN  "<li><a href=\"#" \o h.id \o "\">" \o h.text \o "</a>"
             \o (IF n = 0 THEN ""
                 ELSE "<ul>\n" \o TocItems(children) \o "</ul>\n")
             \o "</li>\n" \o TocItems(rest)

TocDiv(hs) ==
    "<div class=\"toc\">\n"
    \o (IF hs = <<>> THEN "<ul></ul>\n" ELSE "<ul>\n" \o TocItems(hs) \o "</ul>\n")
    \o "</div>\n"

\* what self.md.toc can be after convert(): the nested list, and for a
\* document without headings also no attribute, an empty string or a div
\* without a list
ConverterTocs(doc) ==
    IF Outline(doc) = <<>>
    THEN {NoToc, "", "<div class=\"toc\">\n</div>\n", TocDiv(<<>>)}
    ELSE {TocDiv(Outline(doc))}

(***************************************************************************)
(* The file system                                                         *)
(***************************************************************************)
File(path, fresh) == [path |-> path, fresh |-> fresh]

InSrc(path) == StartsAt(path, 1, "src/")

Paths(files) == {f.path : f \in files}

StaticNames == {"reset.css", "img/logo.png"}

ForeignNames == {"index.html", "old.html", "src/reset.css", "src/old.css"}

\* shutil.rmtree(output_dir/src)
RmtreeSrc(files) == {f \in files : ~InSrc(f.path)}

\* shutil.copytree(static_dir, output_dir/src)
Copytree(names) == {File("src/" \o n, TRUE) : n \in names}

\* the print loop of copy_static_files over ['reset.css', 'index.js']
FoundLines(files) ==
    (IF "src/reset.css" \in Paths(files)
     THEN <<"Found existing reset.css in output directory">> ELSE <<>>)
    \o (IF "src/index.js" \in Paths(files)
        THEN <<"Found existing index.js in output directory">> ELSE <<>>)

\* post.metadata.get(key, default)
Get(metadata, key, default) ==
    IF key \in DOMAIN metadata THEN metadata[key] ELSE default

(***************************************************************************)
(* build() and the methods it calls, one action per step                   *)
(***************************************************************************)
\* the generator is constructed next to the output of an earlier run
Init ==
    /\ pc = "idle"
    /\ input_exists \in BOOLEAN
    /\ static_exists = TRUE
    /\ static_files = StaticNames
    /\ out_exists = TRUE
    /\ out_src_exists = TRUE
    /\ out_files = {File("src/" \o n, FALSE) : n \in StaticNames}
                   \cup (IF input_exists THEN {File("index.html", FALSE)}
                         ELSE {})
    /\ post = NoPost
    /\ md_toc = NoToc
    /\ raw_html = ""
    /\ html_content = ""
    /\ toc = ""
    /\ page = <<>>
    /\ log = <<>>
    /\ before = {}

\* build() is entered on a newly constructed generator (build.py 160-162)
build_start ==
    /\ pc = "idle"
    /\ pc' = "clean"
    /\ log' = <<"Starting monospace web build...">>
    /\ before' = Paths(out_files)
    /\ out_files' = {File(f.path, FALSE) : f \in out_files}
    /\ post' = NoPost
    /\ md_toc' = NoToc
    /\ raw_html' = ""
    /\ html_content' = ""
    /\ toc' = ""
    /\ page' = <<>>
    /\ UNCHANGED <<input_exists, static_exists, static_files, out_exists,
                   out_src_exists>>

\* the directory created but not emptied
clean_output_dir_keep ==
    /\ pc = "clean"
    /\ pc' = "copy"
    /\ out_exists' = TRUE
    /\ UNCHANGED <<input_exists, static_exists, static_files, out_files,
                   out_src_exists, log, before>>
    /\ UNCHANGED docvars

clean_output_dir ==
    /\ pc = "clean"
    /\ pc' = "copy"
    /\ out_files' = IF out_exists THEN {} ELSE out_files
    /\ out_src_exists' = IF out_exists THEN FALSE ELSE out_src_exists
    /\ out_exists' = TRUE
    /\ UNCHANGED <<input_exists, static_exists, static_files, log, before>>
    /\ UNCHANGED docvars

copy_static_files ==
    /\ pc = "copy"
    /\ pc' = "generate"
    /\ out_files' =
          IF static_exists
          THEN (IF out_src_exists THEN RmtreeSrc(out_files) ELSE out_files)
               \cup Copytree(static_files)
          ELSE out_files
    /\ out_src_exists' = (static_exists \/ out_src_exists)
    /\ log' = IF out_src_exists' THEN log \o FoundLines(out_files') ELSE log
    /\ UNCHANGED <<input_exists, static_exists, static_files, out_exists,
                   before>>
    /\ UNCHANGED docvars

\* not os.path.exists(self.input_file): report and return
generate_missing_input ==
    /\ pc = "generate"
    /\ ~input_exists
    /\ pc' = "finish"
    /\ log' = Append(log, "Input file not found")
    /\ UNCHANGED <<before>>
    /\ UNCHANGED fsvars
    /\ UNCHANGED docvars

\* the file opened without the existence check
generate_load_unchecked(docs, metas) ==
    /\ pc = "generate"
    /\ IF input_exists
       THEN /\ pc' = "convert"
            /\ \E d \in docs, m \in metas :
                  post' = [metadata |-> m, content |-> d]
       ELSE /\ pc' = "raised"
            /\ post' = post
    /\ UNCHANGED <<md_toc, raw_html, html_content, toc, page, log, before>>
    /\ UNCHANGED fsvars

\* open(self.input_file) and frontmatter.load; open raises when the file
\* is missing
generate_load(docs, metas) ==
    /\ pc = "generate"
    /\ input_exists
    /\ IF input_exists
       THEN /\ pc' = "convert"
            /\ \E d \in docs, m \in metas :
                  post' = [metadata |-> m, content |-> d]
       ELSE /\ pc' = "raised"
            /\ post' = post
    /\ UNCHANGED <<md_toc, raw_html, html_content, toc, page, log, before>>
    /\ UNCHANGED fsvars

\* html_content = self.md.convert(post.content)
generate_convert ==
    /\ pc = "convert"
    /\ pc' = "classing"
    /\ raw_html' = Convert(post.content)
    /\ html_content' = raw_html'
    /\ md_toc' \in ConverterTocs(post.content)
    /\ UNCHANGED <<post, toc, page, log, before>>
    /\ UNCHANGED fsvars

generate_list_classing ==
    /\ pc = "classing"
    /\ pc' = "figures"
    /\ html_content' = ListClassing(html_content)
    /\ UNCHANGED <<post, md_toc, raw_html, toc, page, log, before>>
    /\ UNCHANGED fsvars

generate_figures ==
    /\ pc = "figures"
    /\ pc' = "strip"
    /\ html_content' = FigureSynthesis(html_content)
    /\ UNCHANGED <<post, md_toc, raw_html, toc, page, log, before>>
    /\ UNCHANGED fsvars

generate_strip_codehilite ==
    /\ pc = "strip"
    /\ pc' = "toc"
    /\ html_content' = StripCodehilite(html_content)
    /\ UNCHANGED <<post, md_toc, raw_html, toc, page, log, before>>
    /\ UNCHANGED fsvars

generate_toc ==
    /\ pc = "toc"
    /\ pc' = "render"
    /\ toc' = FormatToc(md_toc)
    /\ UNCHANGED <<post, md_toc, raw_html, html_content, page, log, before>>
    /\ UNCHANGED fsvars

\* the slot names used as metadata keys
RenderArgsSlotKeys(metadata, t, content) ==
    [title     |-> Get(metadata, "title", "The Monospace Web"),
     subtitle  |-> Get(metadata, "subtitle", ""),
     author    |-> Get(metadata, "author", ""),
     author_url |-> Get(metadata, "author_url", ""),
     toc_title |-> Get(metadata, "toc_title", "Contents"),
     toc       |-> t,
     content   |-> content]

\* template.render(...)
RenderArgs(metadata, t, content) ==
    [title     |-> Get(metadata, "title", "The Monospace Web"),
     subtitle  |-> Get(metadata, "subtitle", ""),
     author    |-> Get(metadata, "author", ""),
     author_url |-> Get(metadata, "author-url", ""),
     toc_title |-> Get(metadata, "toc-title", "Contents"),
     toc       |-> t,
     content   |-> content]

generate_render ==
    /\ pc = "render"
    /\ pc' = "write"
    /\ page' = <<RenderArgs(post.metadata, toc, html_content)>>
    /\ UNCHANGED <<post, md_toc, raw_html, html_content, toc, log, before>>
    /\ UNCHANGED fsvars

\* open(output_dir/index.html, 'w') and f.write(html)
generate_write ==
    /\ pc = "write"
    /\ pc' = "finish"
    /\ out_files' = {f \in out_files : f.path # "index.html"}
                    \cup {File("index.html", TRUE)}
    /\ log' = Append(log, "Generated: index.html")
    /\ UNCHANGED <<input_exists, static_exists, static_files, out_exists,
                   out_src_exists, before>>
    /\ UNCHANGED docvars

build_complete ==
    /\ pc = "finish"
    /\ pc' = "idle"
    /\ log' = Append(log, "Monospace web build complete!")
    /\ UNCHANGED <<before>>
    /\ UNCHANGED fsvars
    /\ UNCHANGED docvars

(***************************************************************************)
(* Between builds the author changes the input file, the static directory  *)
(* and the output directory.                                                *)
(***************************************************************************)
env_input ==
    /\ pc = "idle"
    /\ input_exists' = ~input_exists
    /\ UNCHANGED <<pc, static_exists, static_files, out_exists,
                   out_src_exists, out_files, log, before>>
    /\ UNCHANGED docvars

env_static ==
    /\ pc = "idle"
    /\ \E e \in BOOLEAN, names \in SUBSET StaticNames :
          /\ e \/ names = {}
          /\ <<e, names>> # <<static_exists, static_files>>
          /\ static_exists' = e
          /\ static_files' = names
    /\ UNCHANGED <<pc, input_exists, out_exists, out_src_exists, out_files,
                   log, before>>
    /\ UNCHANGED docvars

env_output ==
    /\ pc = "idle"
    /\ \E p \in ForeignNames :
          /\ File(p, FALSE) \notin out_files
          /\ out_files' = {f \in out_files : f.path # p} \cup {File(p, FALSE)}
          /\ out_src_exists' = (out_src_exists \/ InSrc(p))
    /\ out_exists' = TRUE
    /\ UNCHANGED <<pc, input_exists, static_exists, static_files, log, before>>
    /\ UNCHANGED docvars

Pipeline(docs, metas) ==
    \/ build_start
    \/ clean_output_dir
    \/ copy_static_files
    \/ generate_missing_input
    \/ generate_load(docs, metas)
    \/ generate_convert
    \/ generate_list_classing
    \/ generate_figures
    \/ generate_strip_codehilite
    \/ generate_toc
    \/ generate_render
    \/ generate_write
    \/ build_complete

\* every document, default metadata
Next == Pipeline(Documents, {NoMetadata})

Spec == Init /\ [][Next]_vars

\* every metadata mapping, two documents
RenderNext == Pipeline({<<>>, <<Heading(1)>>}, Metadatas)

RenderSpec == Init /\ [][RenderNext]_vars

\* repeated builds with a changing file system, one document
BuildNext ==
    \/ Pipeline({<<Heading(1), Para(<<ImgMd>>)>>}, {NoMetadata})
    \/ env_input
    \/ env_static
    \/ env_output

BuildSpec == Init /\ [][BuildNext]_vars

(***************************************************************************)
(* Reading the HTML back: list tags, heading ids, link targets             *)
(***************************************************************************)
\* the n-th smallest element of a set of indices
Nth(S, n) == CHOOSE x \in S : Cardinality({y \in S : y < x}) = n - 1

Ordered(S) == [n \in 1..Cardinality(S) |-> Nth(S, n)]

Range(f) == {f[x] : x \in DOMAIN f}

\* the text of the tag opened at index i, up to its '>'
TagAt(s, i) == SubSeq(s, i, Find(s, ">", i))

ListTagStarts(s) ==
    {i \in 1..Len(s) : StartsAt(s, i, "<ul") \/ StartsAt(s, i, "<ol")}

\* the <ul>/<ol> opening tags of s in document order
ListTags(s) ==
    LET at == Ordered(ListTagStarts(s))
    IN  [n \in DOMAIN at |-> TagAt(s, at[n])]

HasAttr(tag, name) == Contains(tag, " " \o name \o "=")

HeadingStarts(s) ==
    {i \in Occurrences(s, "<h", 1) :
        \E l \in 1..6 : StartsAt(s, i, "<h" \o ToString(l) \o " id=\"")}

\* the id attributes of the heading tags of s in document order
HeadingIds(s) ==
    LET at == Ordered(HeadingStarts(s))
    IN  [n \in DOMAIN at |->
            SubSeq(s, at[n] + 8, Find(s, "\"", at[n] + 8) - 1)]

\* the anchors the links of a toc point at
TocTargets(t) ==
    {SubSeq(t, i + 7, Find(t, "\"", i + 7) - 1) :
        i \in Occurrences(t, "href=\"#", 1)}

SoleImage(b) == b.kind = "para" /\ Len(b.inline) = 1 /\ b.inline[1].img

ImagePlusOther(b) ==
    /\ b.kind = "para"
    /\ Len(b.inline) > 1
    /\ \E n \in DOMAIN b.inline : b.inline[n].img

Normalized == pc \in {"toc", "render", "write"}

TocBuilt == pc \in {"render", "write"}

(***************************************************************************)
(* Claims                                                                  *)
(***************************************************************************)

\* C1: for every heading of the document, whatever the order of heading
\* levels, the toc handed to the template holds exactly one link whose href
\* is "#<anchor>" and whose id is "toc-<anchor>".
C1_TocAnchorInvariant ==
    TocBuilt =>
        \A h \in Range(Outline(post.content)) :
            Count(toc, "<a href=\"#" \o h.id \o "\" id=\"toc-" \o h.id \o "\"") = 1

\* C2: after list classing every <ul>/<ol> opening tag that had no class
\* attribute carries class="incremental", and such an <ol> carries type="1"
\* unless it declared a type; an <ol> with only a type is classed too.
C2_ListClassing ==
    pc = "figures" =>
        LET a == ListTags(raw_html)
            b == ListTags(html_content)
        IN  /\ Len(a) = Len(b)
            /\ \A n \in DOMAIN a :
                  ~HasAttr(a[n], "class") =>
                      /\ Contains(b[n], " class=\"incremental\"")
                      /\ StartsAt(a[n], 1, "<ol") =>
                            \/ HasAttr(a[n], "type")
                            \/ Contains(b[n], " type=\"1\"")

\* C3: every <ul>/<ol> opening tag that already carried a class attribute,
\* whatever its value, is the same tag after list classing, figure
\* synthesis and syntax-highlight class removal.
C3_ClassedListsUntouched ==
    Normalized =>
        LET a == ListTags(raw_html)
            b == ListTags(html_content)
        IN  /\ Len(a) = Len(b)
            /\ \A n \in DOMAIN a : HasAttr(a[n], "class") => b[n] = a[n]

\* C4: every paragraph whose whole content is one image tag, in either
\* spelling, has become a figure whose caption is the image's alt text,
\* the empty string when alt is empty or absent.
C4_FigureSynthesis ==
    Normalized =>
        \A b \in Range(post.content) :
            SoleImage(b) =>
                Contains(html_content,
                         "<figure>" \o b.inline[1].html
                         \o "<figcaption aria-hidden=\"true\">"
                         \o b.inline[1].alt \o "</figcaption></figure>")

\* C5: a paragraph holding an image together with other inline content is
\* still a plain <p> in the normalized output, and no <figure> or
\* <figcaption> was created for it.
C5_NoFigureForMixedParagraph ==
    Normalized =>
        LET sole == {n \in DOMAIN post.content : SoleImage(post.content[n])}
        IN  /\ \A b \in Range(post.content) :
                  ImagePlusOther(b) => Contains(html_content, b.html)
            /\ Count(html_content, "<figure>") <= Cardinality(sole)
            /\ Count(html_content, "<figcaption") <= Cardinality(sole)

\* C6: for a document without headings the toc handed to the template is
\* exactly <ul class="incremental"></ul>, whichever form the converter's
\* toc takes, and the build does not fail.
C6_EmptyToc ==
    /\ pc # "raised"
    /\ (page # <<>> /\ Outline(post.content) = <<>>) =>
          page[1].toc = "<ul class=\"incremental\"></ul>"

C6_Witness ==
    /\ pc = "finish"
    /\ page # <<>>
    /\ Outline(post.content) = <<>>
    /\ post.content # <<>>
    /\ md_toc = "<div class=\"toc\">\n<ul></ul>\n</div>\n"

\* C7: the template receives all seven slots; each metadata slot holds the
\* document's value when the key is present and its default otherwise, the
\* keys author-url and toc-title feeding author_url and toc_title.
C7_TemplateDefaults ==
    page # <<>> =>
        LET m == post.metadata
            a == page[1]
            Slot(key, value, default) ==
                /\ key \in DOMAIN m => value = "doc " \o key
                /\ key \notin DOMAIN m => value = default
        IN  /\ DOMAIN a = {"title", "subtitle", "author", "author_url",
                           "toc_title", "toc", "content"}
            /\ Slot("title", a.title, "The Monospace Web")
            /\ Slot("subtitle", a.subtitle, "")
            /\ Slot("author", a.author, "")
            /\ Slot("author-url", a.author_url, "")
            /\ Slot("toc-title", a.toc_title, "Contents")
            /\ a.toc = toc
            /\ a.content = html_content

C7_Witness ==
    /\ pc = "write"
    /\ DOMAIN post.metadata = {"author-url", "toc-title", "subtitle"}

\* C8: when the input file is missing, build() reports it and completes
\* without raising; nothing is rendered and, the reset and the asset copy
\* having run, the output directory holds the assets and no index.html.
C8_MissingInput ==
    ~input_exists =>
        /\ pc # "raised"
        /\ pc = "finish" =>
              /\ page = <<>>
              /\ "Input file not found" \in Range(log)
              /\ "index.html" \notin Paths(out_files)
              /\ out_exists
              /\ static_exists =>
                    \A n \in static_files : File("src/" \o n, TRUE) \in out_files

C8_Witness ==
    /\ pc = "finish"
    /\ ~input_exists
    /\ "index.html" \in before
    /\ static_exists

C10_HeadingIdsPreserved ==
    /\ pc \in {"figures", "strip", "toc", "render", "write"} =>
          HeadingIds(html_content) = HeadingIds(raw_html)
    /\ TocBuilt => TocTargets(toc) \subseteq Range(HeadingIds(html_content))

C10_Witness ==
    /\ pc = "render"
    /\ html_content # raw_html
    /\ TocTargets(toc) # {}

(***************************************************************************)
(* The rules as functions of the fragment                                  *)
(***************************************************************************)
RuleNames == {"classing", "figures", "strip"}

Apply(rule, s) ==
    CASE rule = "classing" -> ListClassing(s)
      [] rule = "figures"  -> FigureSynthesis(s)
      [] rule = "strip"    -> StripCodehilite(s)

\* the six orders of the three rules
Orders == {o \in [1..3 -> RuleNames] : Range(o) = RuleNames}

ApplyAll(o, s) == Apply(o[3], Apply(o[2], Apply(o[1], s)))

\* the index behind the opening tag that starts at i
AfterTag(s, i) ==
    LET g == Find(s, ">", i) IN IF g = 0 THEN Len(s) + 1 ELSE g + 1

\* the text between the opening tag at i and the next closing tag
Enclosed(s, i, closing) ==
    LET c == Find(s, closing, AfterTag(s, i))
    IN  SubSeq(s, AfterTag(s, i), IF c = 0 THEN Len(s) ELSE c - 1)

\* the contents of the <pre> and of the <code> elements, in document order
CodeTexts(s) ==
    LET pre == Ordered(Occurrences(s, "<pre", 1))
        code == Ordered(Occurrences(s, "<code", 1))
    IN  [n \in DOMAIN pre |-> Enclosed(s, pre[n], "</pre>")]
        \o [n \in DOMAIN code |-> Enclosed(s, code[n], "</code>")]

\* C11: list classing, figure synthesis and syntax-highlight class removal
\* give the same fragment in each of their six orders.
C11_RulesCommute ==
    pc = "classing" =>
        \A o \in Orders : ApplyAll(o, raw_html) = Normalize(raw_html)

\* C12: each of the three rules is idempotent: applied to its own output
\* it changes nothing.
C12_RulesIdempotent ==
    pc = "classing" =>
        \A r \in RuleNames :
            Apply(r, Apply(r, raw_html)) = Apply(r, raw_html)

\* C13: the text inside every <pre> and <code> element of the converter's
\* output is the same after list classing, after figure synthesis and
\* after the class removal, which touches the wrapper's class only.
C13_CodeUntouched ==
    pc \in {"figures", "strip", "toc"} =>
        CodeTexts(html_content) = CodeTexts(raw_html)

====
